---- MODULE Spec2Model ----
(***************************************************************************)
(* Job-listing aggregation pipeline of the career recommendation system:   *)
(* JobScraper (src/src/jobs_scraper.py) and JobAPIClient                   *)
(* (src/src/job_api_client.py).                                            *)
(*                                                                         *)
(* Strings the code inspects (titles, companies, the query) are sequences  *)
(* of one-character strings, so that str.lower, str.split and the `in`     *)
(* substring test are computed character by character.  Strings the code   *)
(* only copies are TLA+ strings; the rupee sign of the bundled salaries is *)
(* written "INR ".                                                         *)
(***************************************************************************)
EXTENDS Integers, Sequences, FiniteSets, TLC

----------------------------------------------------------------------------
(* Bounds of the model *)

MaxJobsBound == 6      \* max_jobs of a scrape_jobs call ranges over 0..MaxJobsBound
MaxCards == 2          \* job cards on one scraped page
MaxRecords == 2        \* records in one API payload
MaxPerSource == 2      \* max_results_per_source ranges over 0..MaxPerSource
MaxDedupLen == 3       \* length of a list handed to _remove_duplicates
MaxTicks == 2          \* readings of the clock after the first

----------------------------------------------------------------------------
(* Python string primitives *)

Upper == <<"A","B","C","D","E","F","G","H","I","J","K","L","M",
           "N","O","P","Q","R","S","T","U","V","W","X","Y","Z">>
LowerLetters == <<"a","b","c","d","e","f","g","h","i","j","k","l","m",
                  "n","o","p","q","r","s","t","u","v","w","x","y","z">>

\* str.lower on one character
LowerChar(c) ==
  IF \E i \in 1..26 : Upper[i] = c
  THEN LowerLetters[CHOOSE i \in 1..26 : Upper[i] = c]
  ELSE c

\* str.lower
Lower(s) == [i \in 1..Len(s) |-> LowerChar(s[i])]

\* k in s  (substring test; the empty string is in every string)
IsSubstr(k, s) ==
  \E i \in 0..(Len(s) - Len(k)) : SubSeq(s, i + 1, i + Len(k)) = k

\* str.split(): maximal runs of non-blank characters
RECURSIVE SplitFrom(_, _, _)
SplitFrom(s, i, word) ==
  IF i > Len(s)
  THEN IF word = <<>> THEN <<>> ELSE <<word>>
  ELSE IF s[i] = " "
       THEN IF word = <<>> THEN SplitFrom(s, i + 1, <<>>)
            ELSE <<word>> \o SplitFrom(s, i + 1, <<>>)
       ELSE SplitFrom(s, i + 1, Append(word, s[i]))

Split(s) == SplitFrom(s, 1, <<>>)

\* xs[:n] for n >= 0
Take(xs, n) == SubSeq(xs, 1, IF n < Len(xs) THEN n ELSE Len(xs))

\* all sequences over S of length at most n
BSeq(S, n) == UNION {[1..k -> S] : k \in 0..n}

Range(xs) == {xs[i] : i \in 1..Len(xs)}

----------------------------------------------------------------------------
(* JobScraper.__init__: the bundled sample postings *)

SAMPLE_SOURCE == "Sample Data"

\* A description is the first len characters of text.
Text(text, len) == [text |-> text, len |-> len]

NoDescription == Text("No description available", 24)

\* the cap of the API adapters on a description, description[:500]
DescriptionLimit == 500

\* d[:n]
Slice(d, n) == Text(d.text, IF d.len > n THEN n ELSE d.len)

BundledSampleJobs ==
  <<
    [title |-> <<"D","a","t","a"," ","S","c","i","e","n","t","i","s","t">>,
     company |-> <<"T","e","c","h","C","o","r","p"," ","I","n","d","i","a">>,
     location |-> "Bangalore, India", salary |-> "INR 8-15 LPA",
     description |-> Text("Looking for a Data Scientist with Python, ML, and SQL skills.", 61),
     apply_link |-> "https://example.com/apply/1", source |-> "Sample Data"],
    [title |-> <<"M","a","c","h","i","n","e"," ","L","e","a","r","n","i","n","g"," ","E","n","g","i","n","e","e","r">>,
     company |-> <<"A","I"," ","S","o","l","u","t","i","o","n","s"," ","P","v","t"," ","L","t","d">>,
     location |-> "Mumbai, India", salary |-> "INR 10-18 LPA",
     description |-> Text("ML Engineer position requiring Python, TensorFlow, and cloud experience.", 72),
     apply_link |-> "https://example.com/apply/2", source |-> "Sample Data"],
    [title |-> <<"S","o","f","t","w","a","r","e"," ","D","e","v","e","l","o","p","e","r">>,
     company |-> <<"D","e","v","T","e","c","h"," ","S","o","l","u","t","i","o","n","s">>,
     location |-> "Delhi, India", salary |-> "INR 6-12 LPA",
     description |-> Text("Full-stack developer with Java, Spring Boot, and React skills.", 62),
     apply_link |-> "https://example.com/apply/3", source |-> "Sample Data"],
    [title |-> <<"B","u","s","i","n","e","s","s"," ","A","n","a","l","y","s","t">>,
     company |-> <<"B","u","s","i","n","e","s","s"," ","I","n","t","e","l","l","i","g","e","n","c","e"," ","C","o","r","p">>,
     location |-> "Pune, India", salary |-> "INR 5-10 LPA",
     description |-> Text("Business Analyst with SQL, Excel, and analytical skills.", 56),
     apply_link |-> "https://example.com/apply/4", source |-> "Sample Data"],
    [title |-> <<"W","e","b"," ","D","e","v","e","l","o","p","e","r">>,
     company |-> <<"W","e","b","C","r","a","f","t"," ","S","t","u","d","i","o","s">>,
     location |-> "Chennai, India", salary |-> "INR 4-8 LPA",
     description |-> Text("Frontend developer with HTML, CSS, JavaScript, and React.", 57),
     apply_link |-> "https://example.com/apply/5", source |-> "Sample Data"],
    [title |-> <<"D","a","t","a"," ","E","n","g","i","n","e","e","r">>,
     company |-> <<"D","a","t","a","F","l","o","w"," ","S","y","s","t","e","m","s">>,
     location |-> "Hyderabad, India", salary |-> "INR 7-14 LPA",
     description |-> Text("Data Engineer with Python, SQL, Apache Spark, and cloud experience.", 67),
     apply_link |-> "https://example.com/apply/6", source |-> "Sample Data"],
    [title |-> <<"M","L"," ","E","n","g","i","n","e","e","r">>,
     company |-> <<"M","a","c","h","i","n","e"," ","L","e","a","r","n","i","n","g"," ","H","u","b">>,
     location |-> "Bangalore, India", salary |-> "INR 9-16 LPA",
     description |-> Text("ML Engineer with Python, scikit-learn, and MLOps experience.", 60),
     apply_link |-> "https://example.com/apply/7", source |-> "Sample Data"],
    [title |-> <<"B","a","c","k","e","n","d"," ","D","e","v","e","l","o","p","e","r">>,
     company |-> <<"A","P","I"," ","S","o","l","u","t","i","o","n","s">>,
     location |-> "Gurgaon, India", salary |-> "INR 6-11 LPA",
     description |-> Text("Backend developer with Java, Spring Boot, and microservices.", 60),
     apply_link |-> "https://example.com/apply/8", source |-> "Sample Data"],
    [title |-> <<"D","a","t","a"," ","A","n","a","l","y","s","t">>,
     company |-> <<"A","n","a","l","y","t","i","c","s"," ","P","r","o">>,
     location |-> "Mumbai, India", salary |-> "INR 5-9 LPA",
     description |-> Text("Data Analyst with Python, R, SQL, and visualization tools.", 58),
     apply_link |-> "https://example.com/apply/9", source |-> "Sample Data"],
    [title |-> <<"F","u","l","l"," ","S","t","a","c","k"," ","D","e","v","e","l","o","p","e","r">>,
     company |-> <<"F","u","l","l","S","t","a","c","k"," ","S","o","l","u","t","i","o","n","s">>,
     location |-> "Pune, India", salary |-> "INR 7-13 LPA",
     description |-> Text("Full-stack developer with React, Node.js, and database skills.", 62),
     apply_link |-> "https://example.com/apply/10", source |-> "Sample Data"]
  >>

----------------------------------------------------------------------------
(* Inputs: scraped pages *)

\* An element of the page is <<>> when find() returns None and <<text>>
\* when it returns a tag whose stripped text is text.
NoElem == <<>>
Elem(text) == <<text>>

N_A == <<"N","/","A">>
DS == <<"D","S">>
ds == <<"d","s">>
TechCorp == <<"T">>
Acme == <<"A">>

\* what a job card of the page carries (none of the cards has a salary or
\* a link element); broken: parsing the card raises
FullCard(t, c, l, d, b) ==
  [title_elem |-> t, company_elem |-> c, location_elem |-> l,
   desc_elem |-> d, broken |-> b]

Card(t, c, b) == FullCard(t, c, NoElem, NoElem, b)

Cards ==
  { Card(Elem(DS), Elem(TechCorp), FALSE),
    Card(Elem(ds), Elem(TechCorp), FALSE),
    Card(Elem(DS), Elem(Acme), FALSE),
    Card(NoElem, NoElem, FALSE),
    Card(Elem(DS), Elem(TechCorp), TRUE) }

\* what session.get + raise_for_status meet: a 2xx page, a non-2xx page
\* (it has a body too), or no response at all (network error, timeout)
Responses ==
  { [kind |-> "network_error", cards |-> <<>>] }
  \cup { [kind |-> k, cards |-> cs] :
           k \in {"ok", "http_error"}, cs \in BSeq(Cards, MaxCards) }

Location == "India"

QueryDataScientist == <<"D","a","t","a"," ","S","c","i","e","n","t","i","s","t">>
QueryEmpty == <<>>
QueryNoMatch == <<"Q","A">>
JobTitles == {QueryDataScientist, QueryEmpty, QueryNoMatch}

----------------------------------------------------------------------------
(* State *)

VARIABLES
  pc,            \* position of the running call; "idle" between calls
  args,          \* arguments of the running call
  sample_jobs,   \* JobScraper.sample_jobs
  all_jobs,      \* local all_jobs of scrape_jobs / fetch_all_sources
  unique_jobs,   \* the list the call returns
  outcome,       \* "none", "returned" or "raised"
  fsm,           \* "LIVE" or "SAMPLE": which data the call serves
  netCalls,      \* HTTP requests issued by the running call
  adapter_log,   \* per adapter of the running call: what it was asked and gave
  rapidapi_key,  \* JobAPIClient.rapidapi_key
  adzuna_app_id, \* JobAPIClient.adzuna_app_id
  adzuna_app_key, \* JobAPIClient.adzuna_app_key
  web,           \* session of calls: the pages the portals serve to the running call
  prev,          \* session of calls: the fsm the previous call ended in
  active_sessions,     \* SessionManager.active_sessions
  blacklisted_tokens,  \* SessionManager.blacklisted_tokens
  now,                 \* datetime.utcnow(), in hours
  ended_tokens         \* the tokens of the sessions end_session has removed

vars == <<pc, args, sample_jobs, all_jobs, unique_jobs, outcome, fsm,
          netCalls, adapter_log, rapidapi_key, adzuna_app_id, adzuna_app_key,
          web, prev, active_sessions, blacklisted_tokens, now, ended_tokens>>

session_manager ==
  <<active_sessions, blacklisted_tokens, now, ended_tokens>>

\* no pages are fixed: each adapter meets whatever its source answers
NoWeb == [s \in {} |-> 0]

credentials == <<rapidapi_key, adzuna_app_id, adzuna_app_key>>

NoArgs == [op |-> "none"]

----------------------------------------------------------------------------
(* JobScraper: the scrape adapters *)

\* the body of the per-card try block, lines 156-190
CardToJob(card, location, source) ==
  [title |-> IF card.title_elem # NoElem THEN card.title_elem[1] ELSE N_A,
   company |-> IF card.company_elem # NoElem THEN card.company_elem[1] ELSE N_A,
   location |-> IF card.location_elem # NoElem THEN card.location_elem[1]
                ELSE location,
   salary |-> "Not specified",
   description |-> IF card.desc_elem # NoElem THEN card.desc_elem[1]
                   ELSE NoDescription,
   apply_link |-> "#",
   source |-> source]

\* a card loop that a card raising ends (no try around the card)
RECURSIVE ParseCardsUntilBroken(_, _, _)
ParseCardsUntilBroken(cards, location, source) ==
  IF cards = <<>> THEN <<>>
  ELSE IF Head(cards).broken
       THEN <<>>
       ELSE <<CardToJob(Head(cards), location, source)>>
            \o ParseCardsUntilBroken(Tail(cards), location, source)

\* for card in job_cards: try ... jobs.append(job) except: continue
RECURSIVE ParseCards(_, _, _)
ParseCards(cards, location, source) ==
  IF cards = <<>> THEN <<>>
  ELSE IF Head(cards).broken
       THEN ParseCards(Tail(cards), location, source)
       ELSE <<CardToJob(Head(cards), location, source)>>
            \o ParseCards(Tail(cards), location, source)

\* a scrape adapter that parses a non-2xx page as well (no raise_for_status)
ScrapePageUnchecked(resp, location, max_jobs, source) ==
  [raised |-> FALSE, requests |-> 1,
   jobs |-> ParseCards(Take(resp.cards, max_jobs), location, source)]

\* a scrape adapter that walks job_cards instead of job_cards[:max_jobs]
ScrapePageUnsliced(resp, location, max_jobs, source) ==
  [raised |-> FALSE, requests |-> 1,
   jobs |-> IF resp.kind # "ok" THEN <<>>
            ELSE ParseCards(resp.cards, location, source)]

\* the common shape of the three scrape adapters: jobs = []; try: get,
\* raise_for_status, parse job_cards[:max_jobs]; except Exception: log;
\* return jobs
ScrapePage(resp, location, max_jobs, source) ==
  [raised |-> FALSE, requests |-> 1,
   jobs |-> IF resp.kind # "ok" THEN <<>>
            ELSE ParseCards(Take(resp.cards, max_jobs), location, source)]

scrape_linkedin_jobs(resp, location, max_jobs) ==
  ScrapePage(resp, location, max_jobs, "LinkedIn")

scrape_indeed_jobs(resp, location, max_jobs) ==
  ScrapePage(resp, location, max_jobs, "Indeed")

scrape_naukri_jobs(resp, location, max_jobs) ==
  ScrapePage(resp, location, max_jobs, "Naukri")

----------------------------------------------------------------------------
(* JobScraper.get_sample_jobs *)

\* a keyword test that does not lower-case the query
TitleMatchesQueryAsIs(job, job_title) ==
  \E k \in Range(Split(job_title)) : IsSubstr(k, Lower(job.title))

\* any(keyword in job['title'].lower() for keyword in job_title_lower.split())
TitleMatches(job, job_title) ==
  \E k \in Range(Split(Lower(job_title))) : IsSubstr(k, Lower(job.title))

get_sample_jobs_unsliced(samples, job_title, max_jobs) ==
  LET filtered == SelectSeq(samples, LAMBDA job : TitleMatches(job, job_title))
  IN  IF filtered = <<>> THEN Take(samples, max_jobs) ELSE filtered

get_sample_jobs(samples, job_title, max_jobs) ==
  LET filtered == SelectSeq(samples, LAMBDA job : TitleMatches(job, job_title))
  IN  IF filtered = <<>>
      THEN Take(Take(samples, max_jobs), max_jobs)
      ELSE Take(filtered, max_jobs)

\* Object identity.  The i-th dict of self.sample_jobs is object i; a dict
\* built by an adapter of the running call is a fresh object.
Fresh == 0

Indices(xs) == [i \in 1..Len(xs) |-> i]

\* the dicts get_sample_jobs puts into the list it returns:
\* filtered_jobs.append(job) and self.sample_jobs[:max_jobs] copy
\* references, never the dicts
get_sample_jobs_objects(samples, job_title, max_jobs) ==
  LET filtered == SelectSeq(Indices(samples),
                            LAMBDA i : TitleMatches(samples[i], job_title))
  IN  IF filtered = <<>>
      THEN Take(Take(Indices(samples), max_jobs), max_jobs)
      ELSE Take(filtered, max_jobs)

----------------------------------------------------------------------------
(* JobScraper.scrape_jobs *)

QuotaCeil(max_jobs) == (max_jobs + 2) \div 3

\* a quota that is never less than one posting
QuotaAtLeastOne(max_jobs) ==
  IF max_jobs \div 3 = 0 THEN 1 ELSE max_jobs \div 3

\* max_jobs // 3, the quota handed to each live adapter
Quota(max_jobs) == max_jobs \div 3

\* a fallback that tops a short live list up with sample postings
FallbackTopUp(jobs, samples, job_title, max_jobs) ==
  IF Len(jobs) < max_jobs
  THEN jobs \o get_sample_jobs(samples, job_title, max_jobs)
  ELSE jobs

\* a fallback that drops a live list shorter than max_jobs for samples
FallbackReplace(jobs, samples, job_title, max_jobs) ==
  IF Len(jobs) < max_jobs
  THEN get_sample_jobs(samples, job_title, max_jobs)
  ELSE jobs

\* if not all_jobs: all_jobs = self.get_sample_jobs(job_title, max_jobs)
Fallback(jobs, samples, job_title, max_jobs) ==
  IF jobs = <<>> THEN get_sample_jobs(samples, job_title, max_jobs) ELSE jobs

\* the loop of lines 426-435: seen_titles holds the exact titles
RECURSIVE UniqueLoop(_, _, _, _)
UniqueLoop(jobs, unique, seen_titles, max_jobs) ==
  IF jobs = <<>> THEN unique
  ELSE IF Head(jobs).title \notin seen_titles
       THEN LET u == Append(unique, Head(jobs))
            IN  IF Len(u) >= max_jobs THEN u
                ELSE UniqueLoop(Tail(jobs), u,
                                seen_titles \cup {Head(jobs).title}, max_jobs)
       ELSE UniqueLoop(Tail(jobs), unique, seen_titles, max_jobs)

UniqueByTitle(jobs, max_jobs) == UniqueLoop(jobs, <<>>, {}, max_jobs)

\* the loop of lines 426-435 seen as objects: unique_jobs.append(job) puts
\* the dict of all_jobs itself into the result
RECURSIVE UniqueObjectsLoop(_, _, _, _, _)
UniqueObjectsLoop(objects, jobs, unique, seen_titles, max_jobs) ==
  IF jobs = <<>> THEN unique
  ELSE IF Head(jobs).title \notin seen_titles
       THEN LET u == Append(unique, Head(objects))
            IN  IF Len(u) >= max_jobs THEN u
                ELSE UniqueObjectsLoop(Tail(objects), Tail(jobs), u,
                                       seen_titles \cup {Head(jobs).title},
                                       max_jobs)
       ELSE UniqueObjectsLoop(Tail(objects), Tail(jobs), unique, seen_titles,
                              max_jobs)

LiveSources == <<"LinkedIn", "Indeed", "Naukri">>

\* a scrape_jobs that goes to the live adapters whatever use_sample is
FirstStepLive(use_sample) == "linkedin"

\* a scrape_jobs that stays on sample data once a call has served it
FirstStepRemembering(use_sample) ==
  IF use_sample \/ prev = "SAMPLE" THEN "sample_only" ELSE "linkedin"

\* if use_sample: return self.get_sample_jobs(...); else the live adapters
FirstStep(use_sample) == IF use_sample THEN "sample_only" ELSE "linkedin"

\* all_jobs = adapter_jobs in place of all_jobs.extend(adapter_jobs)
ExtendAssign(jobs, r) == IF r.raised THEN jobs ELSE r.jobs

\* the adapter's list goes in front of all_jobs instead of behind it
ExtendFront(jobs, r) == IF r.raised THEN jobs ELSE r.jobs \o jobs

\* try: all_jobs.extend(adapter(...)) except Exception: log a warning
Extend(jobs, r) == IF r.raised THEN jobs ELSE jobs \o r.jobs

\* adapter_log: the adapters invoked so far by the running call, each with
\* the quota it was given, whether its request failed, the requests it
\* issued and the list it returned
EmptyLog == [s \in {} |-> 0]

Logged(log, source, resp, quota, r) ==
  [s \in (DOMAIN log) \cup {source} |->
     IF s = source
     THEN [failed |-> r.requests > 0 /\ resp.kind # "ok", quota |-> quota,
           requests |-> r.requests, jobs |-> r.jobs]
     ELSE log[s]]

\* scrape_jobs is entered
EnterScrapeJobs(job_title, location, max_jobs, use_sample) ==
  /\ pc = "idle"
  /\ args' = [op |-> "scrape_jobs", job_title |-> job_title,
              location |-> location, max_jobs |-> max_jobs,
              use_sample |-> use_sample]
  /\ pc' = FirstStep(use_sample)
  /\ fsm' = IF use_sample THEN "SAMPLE" ELSE "LIVE"
  /\ all_jobs' = <<>>
  /\ unique_jobs' = <<>>
  /\ outcome' = "none"
  /\ netCalls' = 0
  /\ adapter_log' = EmptyLog
  /\ UNCHANGED <<sample_jobs, credentials, session_manager, prev>>

CallScrapeJobs ==
  /\ \E job_title \in JobTitles, max_jobs \in 0..MaxJobsBound,
        use_sample \in BOOLEAN :
       EnterScrapeJobs(job_title, Location, max_jobs, use_sample)
  /\ UNCHANGED web

\* lines 390-392: return self.get_sample_jobs(job_title, max_jobs)
ReturnSampleOnly ==
  /\ pc = "sample_only"
  /\ unique_jobs' = get_sample_jobs(sample_jobs, args.job_title, args.max_jobs)
  /\ outcome' = "returned"
  /\ pc' = "done"
  /\ UNCHANGED <<web, prev, credentials, session_manager, args, sample_jobs, all_jobs, fsm, netCalls, adapter_log>>

\* one try block of lines 396-418: the adapter issues its GET and its list,
\* unless it raised, is appended to all_jobs
LiveStep(here, next, source, r, resp) ==
  /\ pc = here
  /\ netCalls' = netCalls + r.requests
  /\ all_jobs' = Extend(all_jobs, r)
  /\ adapter_log' = Logged(adapter_log, source, resp, Quota(args.max_jobs), r)
  /\ pc' = next
  /\ UNCHANGED <<web, prev, credentials, session_manager, args, sample_jobs, unique_jobs, outcome, fsm>>

TryLinkedIn ==
  \E resp \in Responses :
    LiveStep("linkedin", "indeed", "LinkedIn",
             scrape_linkedin_jobs(resp, args.location, Quota(args.max_jobs)),
             resp)

TryIndeed ==
  \E resp \in Responses :
    LiveStep("indeed", "naukri", "Indeed",
             scrape_indeed_jobs(resp, args.location, Quota(args.max_jobs)),
             resp)

TryNaukri ==
  \E resp \in Responses :
    LiveStep("naukri", "fallback", "Naukri",
             scrape_naukri_jobs(resp, args.location, Quota(args.max_jobs)),
             resp)

\* lines 420-423
UseSampleIfEmpty ==
  /\ pc = "fallback"
  /\ all_jobs' = Fallback(all_jobs, sample_jobs, args.job_title, args.max_jobs)
  /\ fsm' = IF all_jobs = <<>> THEN "SAMPLE" ELSE fsm
  /\ pc' = "unique"
  /\ UNCHANGED <<web, prev, credentials, session_manager, args, sample_jobs, unique_jobs, outcome, netCalls,
                 adapter_log>>

\* lines 425-438
ReturnUnique ==
  /\ pc = "unique"
  /\ unique_jobs' = UniqueByTitle(all_jobs, args.max_jobs)
  /\ outcome' = "returned"
  /\ pc' = "done"
  /\ UNCHANGED <<web, prev, credentials, session_manager, args, sample_jobs, all_jobs, fsm, netCalls, adapter_log>>

\* the objects of the list a scrape_jobs call has returned, place by place
\* (lines 392, 423 and 437)
ResultObjects ==
  IF args.use_sample
  THEN get_sample_jobs_objects(sample_jobs, args.job_title, args.max_jobs)
  ELSE IF fsm = "SAMPLE"
       THEN UniqueObjectsLoop(
              get_sample_jobs_objects(sample_jobs, args.job_title,
                                      args.max_jobs),
              all_jobs, <<>>, {}, args.max_jobs)
       ELSE [k \in 1..Len(unique_jobs) |-> Fresh]

\* the call has returned to its caller, who keeps p as the memory of it
ReturnRecording(p) ==
  /\ pc = "done"
  /\ pc' = "idle"
  /\ args' = NoArgs
  /\ all_jobs' = <<>>
  /\ unique_jobs' = <<>>
  /\ outcome' = "none"
  /\ fsm' = "LIVE"
  /\ netCalls' = 0
  /\ adapter_log' = EmptyLog
  /\ web' = NoWeb
  /\ prev' = p
  /\ UNCHANGED <<sample_jobs, credentials, session_manager>>

Return == ReturnRecording(prev)

----------------------------------------------------------------------------
(* Inputs: API payloads.  A field of a JSON record is <<>> when the key is *)
(* absent, <<value>> when it is present with a value and NullElem when it *)
(* is present with the JSON null (Python None).                            *)

ML == <<"M","L">>
techcorp == <<"t">>

\* None; no text is Null, the characters of a text being one long
Null == <<"null">>

\* a key that is present with the JSON null
NullElem == <<Null, Null>>

IsNull(field) == Len(field) = 2

\* dict.get(key, default): the default stands in for an absent key only,
\* a key present with null gives None
Opt(field, default) == IF field = <<>> THEN default ELSE field[1]

RapidRecord(t, c, d) ==
  [job_title |-> t, employer_name |-> c, job_description |-> d]

\* the company object of an Adzuna record
CompanyObject(display_name) == [display_name |-> display_name]

AdzunaRecord(t, c, d) == [title |-> t, company |-> c, description |-> d]

RemoteOKRecord(p, c, d) == [position |-> p, company |-> c, description |-> d]

RapidRecords ==
  { RapidRecord(Elem(DS), Elem(TechCorp), NoElem),
    RapidRecord(Elem(ds), Elem(techcorp), NoElem),
    RapidRecord(NoElem, NoElem, NoElem) }

AdzunaRecords ==
  { AdzunaRecord(Elem(DS), Elem(CompanyObject(Elem(TechCorp))), NoElem),
    AdzunaRecord(Elem(ML), Elem(CompanyObject(Elem(TechCorp))), NoElem),
    AdzunaRecord(NoElem, NoElem, NoElem) }

RemoteOKRecords ==
  { RemoteOKRecord(Elem(DS), Elem(techcorp), NoElem),
    RemoteOKRecord(Elem(ML), Elem(Acme), NoElem),
    RemoteOKRecord(NoElem, NoElem, NoElem) }

\* the first item of the RemoteOK payload
RemoteOKLegal == [legal |-> "API Terms of Service"]

Payloads(Records) ==
  { [kind |-> "network_error", records |-> <<>>] }
  \cup { [kind |-> k, records |-> rs] :
           k \in {"ok", "http_error"}, rs \in BSeq(Records, MaxRecords) }

ApiJobTitles == {ds, QueryNoMatch}

----------------------------------------------------------------------------
(* JobAPIClient: the adapters *)

\* job.get(key): a raw record need not carry the key at all
Field(job, key) == IF key \in DOMAIN job THEN job[key] ELSE NoElem

\* the truth value of job.get(key) for a number: None and 0 are false
Truthy(field) == Len(field) = 1 /\ field[1] # 0

Pad3(n) ==
  IF n < 10 THEN "00" \o ToString(n)
  ELSE IF n < 100 THEN "0" \o ToString(n) ELSE ToString(n)

\* f"{n:,.0f}" for a whole number n >= 0
RECURSIVE Comma(_)
Comma(n) ==
  IF n < 1000 THEN ToString(n)
  ELSE Comma(n \div 1000) \o "," \o Pad3(n % 1000)

\* the three branches of _format_salary and _format_salary_range
FormatRange(min_sal, max_sal, currency) ==
  IF Truthy(min_sal) /\ Truthy(max_sal)
  THEN currency \o Comma(min_sal[1]) \o "-" \o currency \o Comma(max_sal[1])
  ELSE IF Truthy(min_sal) THEN currency \o Comma(min_sal[1]) \o "+"
  ELSE IF Truthy(max_sal) THEN "Up to " \o currency \o Comma(max_sal[1])
  ELSE "Not specified"

format_salary(min_sal, max_sal) == FormatRange(min_sal, max_sal, "$")

\* the rupee sign is written INR
format_salary_range(min_sal, max_sal) == FormatRange(min_sal, max_sal, "INR ")

\* f"{job.get(key, 0)}"
Shown(field) ==
  IF field = <<>> THEN "0"
  ELSE IF IsNull(field) THEN "None" ELSE ToString(field[1])

\* line 185
remoteok_salary(min_sal, max_sal) ==
  IF Truthy(min_sal) THEN "$" \o Shown(min_sal) \o "-$" \o Shown(max_sal)
  ELSE "Not specified"

\* building the posting raises: None[:500]
RapidRecordRaises(job) == IsNull(job.job_description)

\* a mapping that stamps the posting with the number of postings built
\* before it
RapidToJobStamped(job, location) ==
  [title |-> Opt(job.job_title, N_A),
   company |-> Opt(job.employer_name, N_A),
   location |-> location,
   salary |-> format_salary(Field(job, "job_min_salary"),
                            Field(job, "job_max_salary")),
   description |-> Slice(Opt(job.job_description, NoDescription),
                         DescriptionLimit),
   apply_link |-> "#",
   source |-> "RapidAPI JSearch",
   posted_date |-> ToString(Len(all_jobs)),
   employment_type |-> "Full-time"]

RapidToJob(job, location) ==
  [title |-> Opt(job.job_title, N_A),
   company |-> Opt(job.employer_name, N_A),
   location |-> location,
   salary |-> format_salary(Field(job, "job_min_salary"),
                            Field(job, "job_max_salary")),
   description |-> Slice(Opt(job.job_description, NoDescription),
                         DescriptionLimit),
   apply_link |-> "#",
   source |-> "RapidAPI JSearch",
   posted_date |-> "",
   employment_type |-> "Full-time"]

\* building the posting raises: None.get('display_name', ...), None[:500]
AdzunaRecordRaises(job) ==
  IsNull(job.company) \/ IsNull(job.description)

AdzunaToJob(job, location) ==
  [title |-> Opt(job.title, N_A),
   company |-> Opt(Opt(job.company, CompanyObject(NoElem)).display_name, N_A),
   location |-> location,
   salary |-> format_salary_range(Field(job, "salary_min"),
                                  Field(job, "salary_max")),
   description |-> Slice(Opt(job.description, NoDescription),
                         DescriptionLimit),
   apply_link |-> "#",
   source |-> "Adzuna",
   posted_date |-> "",
   contract_type |-> "permanent"]

RemoteOKToJob(job) ==
  [title |-> Opt(job.position, N_A),
   company |-> Opt(job.company, N_A),
   location |-> "Remote",
   salary |-> remoteok_salary(Field(job, "salary_min"),
                              Field(job, "salary_max")),
   description |-> Slice(Opt(job.description, NoDescription),
                         DescriptionLimit),
   apply_link |-> "#",
   source |-> "RemoteOK",
   posted_date |-> "",
   tags |-> ""]

\* for job in records: jobs.append({...}); an exception raised for one
\* record leaves the loop and the except clause of the adapter returns []
RapidJobs(records, location) ==
  IF \E i \in 1..Len(records) : RapidRecordRaises(records[i])
  THEN <<>>
  ELSE [i \in 1..Len(records) |-> RapidToJob(records[i], location)]

AdzunaJobs(records, location) ==
  IF \E i \in 1..Len(records) : AdzunaRecordRaises(records[i])
  THEN <<>>
  ELSE [i \in 1..Len(records) |-> AdzunaToJob(records[i], location)]

\* lines 49-92
fetch_from_rapidapi_jsearch(key, resp, location, max_results) ==
  IF key = ""
  THEN [raised |-> FALSE, requests |-> 0, jobs |-> <<>>]
  ELSE [raised |-> FALSE, requests |-> 1,
        jobs |-> IF resp.kind # "ok" THEN <<>>
                 ELSE RapidJobs(Take(resp.records, max_results), location)]

\* an Adzuna adapter that gives up only when both credentials are missing
fetch_from_adzuna_both(app_id, app_key, resp, location, max_results) ==
  IF app_id = "" /\ app_key = ""
  THEN [raised |-> FALSE, requests |-> 0, jobs |-> <<>>]
  ELSE [raised |-> FALSE, requests |-> 1,
        jobs |-> IF resp.kind # "ok" THEN <<>>
                 ELSE AdzunaJobs(resp.records, location)]

\* lines 107-150; max_results only travels to the server as results_per_page
fetch_from_adzuna(app_id, app_key, resp, location, max_results) ==
  IF app_id = "" \/ app_key = ""
  THEN [raised |-> FALSE, requests |-> 0, jobs |-> <<>>]
  ELSE [raised |-> FALSE, requests |-> 1,
        jobs |-> IF resp.kind # "ok" THEN <<>>
                 ELSE AdzunaJobs(resp.records, location)]

\* line 180, for a position that is a string
PositionMatches(job, job_title) ==
  LET title == Lower(Opt(job.position, <<>>))
      job_title_lower == Lower(job_title)
  IN  \/ IsSubstr(job_title_lower, title)
      \/ \E k \in Range(Split(job_title_lower)) : IsSubstr(k, title)

\* the loop of lines 175-191; raised: None.lower() at line 179 or
\* None[:500] at line 186
RECURSIVE RemoteOKLoop(_, _, _, _)
RemoteOKLoop(data, jobs, job_title, max_results) ==
  IF data = <<>> THEN [raised |-> FALSE, jobs |-> jobs]
  ELSE IF Len(jobs) >= max_results THEN [raised |-> FALSE, jobs |-> jobs]
  ELSE IF IsNull(Head(data).position)
       THEN [raised |-> TRUE, jobs |-> jobs]
  ELSE IF PositionMatches(Head(data), job_title)
       THEN IF IsNull(Head(data).description)
            THEN [raised |-> TRUE, jobs |-> jobs]
            ELSE RemoteOKLoop(Tail(data),
                              Append(jobs, RemoteOKToJob(Head(data))),
                              job_title, max_results)
       ELSE RemoteOKLoop(Tail(data), jobs, job_title, max_results)

\* lines 163-198; resp.records is the payload after its first item
fetch_from_remoteok(resp, job_title, max_results) ==
  [raised |-> FALSE, requests |-> 1,
   jobs |-> IF resp.kind # "ok" THEN <<>>
            ELSE LET data == <<RemoteOKLegal>> \o resp.records
                     r == RemoteOKLoop(Tail(data), <<>>, job_title,
                                       max_results)
                 IN  IF r.raised THEN <<>> ELSE r.jobs]

----------------------------------------------------------------------------
(* JobAPIClient._remove_duplicates *)

DedupKey(job) == <<Lower(job.title), Lower(job.company)>>

RECURSIVE RemoveLoopExact(_, _, _)
RemoveLoopExact(jobs, seen, unique) ==
  IF jobs = <<>> THEN unique
  ELSE LET key == <<Head(jobs).title, Head(jobs).company>>
       IN  IF key \notin seen
           THEN RemoveLoopExact(Tail(jobs), seen \cup {key},
                                Append(unique, Head(jobs)))
           ELSE RemoveLoopExact(Tail(jobs), seen, unique)

\* a dedup that forgets the keys it has seen whenever it drops a posting
RECURSIVE RemoveLoopForgetful(_, _, _)
RemoveLoopForgetful(jobs, seen, unique) ==
  IF jobs = <<>> THEN unique
  ELSE LET key == DedupKey(Head(jobs))
       IN  IF key \notin seen
           THEN RemoveLoopForgetful(Tail(jobs), seen \cup {key},
                                    Append(unique, Head(jobs)))
           ELSE RemoveLoopForgetful(Tail(jobs), {}, unique)

remove_duplicates_forgetful(jobs) == RemoveLoopForgetful(jobs, {}, <<>>)

RECURSIVE RemoveLoop(_, _, _)
RemoveLoop(jobs, seen, unique) ==
  IF jobs = <<>> THEN unique
  ELSE LET key == DedupKey(Head(jobs))
       IN  IF key \notin seen
           THEN RemoveLoop(Tail(jobs), seen \cup {key},
                           Append(unique, Head(jobs)))
           ELSE RemoveLoop(Tail(jobs), seen, unique)

\* a dedup whose key keeps the letter case
remove_duplicates_exact(jobs) == RemoveLoopExact(jobs, {}, <<>>)

remove_duplicates(jobs) == RemoveLoop(jobs, {}, <<>>)

\* line 278 raises AttributeError: None has no lower()
RemoveDuplicatesRaises(jobs) ==
  \E i \in 1..Len(jobs) : jobs[i].title = Null \/ jobs[i].company = Null

DedupPostings ==
  { [title |-> t, company |-> c, location |-> l, salary |-> "Not specified",
     description |-> NoDescription, apply_link |-> "#",
     source |-> "RemoteOK"] :
    t \in {DS, ds, ML}, c \in {TechCorp, techcorp}, l \in {"India", "Remote"} }

\* _remove_duplicates applied to a list of postings
CallRemoveDuplicates ==
  /\ pc = "idle"
  /\ \E jobs \in BSeq(DedupPostings, MaxDedupLen) :
       /\ args' = [op |-> "_remove_duplicates", jobs |-> jobs]
       /\ unique_jobs' = remove_duplicates(jobs)
  /\ outcome' = "returned"
  /\ pc' = "done"
  /\ UNCHANGED <<web, prev, sample_jobs, credentials, session_manager, all_jobs, fsm, netCalls,
                 adapter_log>>

----------------------------------------------------------------------------
(* JobAPIClient.fetch_all_sources *)

ApiSources == <<"RapidAPI JSearch", "Adzuna", "RemoteOK">>

EnterFetchAllSources(job_title, location, max_results) ==
  /\ pc = "idle"
  /\ args' = [op |-> "fetch_all_sources", job_title |-> job_title,
              location |-> location,
              max_results_per_source |-> max_results]
  /\ pc' = "rapidapi"
  /\ all_jobs' = <<>>
  /\ unique_jobs' = <<>>
  /\ outcome' = "none"
  /\ fsm' = "LIVE"
  /\ netCalls' = 0
  /\ adapter_log' = EmptyLog
  /\ UNCHANGED <<prev, sample_jobs, credentials, session_manager>>

CallFetchAllSources ==
  /\ \E job_title \in ApiJobTitles, max_results \in 0..MaxPerSource :
       EnterFetchAllSources(job_title, Location, max_results)
  /\ UNCHANGED web

\* lines 234-243: one adapter call and all_jobs.extend
ApiStep(here, next, source, r, resp) ==
  /\ pc = here
  /\ netCalls' = netCalls + r.requests
  /\ all_jobs' = all_jobs \o r.jobs
  /\ adapter_log' = Logged(adapter_log, source, resp,
                           args.max_results_per_source, r)
  /\ pc' = next
  /\ UNCHANGED <<web, prev, credentials, session_manager, args, sample_jobs, unique_jobs, outcome, fsm>>

TryRapidAPI ==
  \E resp \in Payloads(RapidRecords) :
    ApiStep("rapidapi", "adzuna", "RapidAPI JSearch",
            fetch_from_rapidapi_jsearch(rapidapi_key, resp, args.location,
                                        args.max_results_per_source),
            resp)

TryAdzuna ==
  \E resp \in Payloads(AdzunaRecords) :
    ApiStep("adzuna", "remoteok", "Adzuna",
            fetch_from_adzuna(adzuna_app_id, adzuna_app_key, resp,
                              args.location, args.max_results_per_source),
            resp)

TryRemoteOK ==
  \E resp \in Payloads(RemoteOKRecords) :
    ApiStep("remoteok", "api_unique", "RemoteOK",
            fetch_from_remoteok(resp, args.job_title,
                                args.max_results_per_source),
            resp)

\* lines 245-250
ReturnApiUnique ==
  /\ pc = "api_unique"
  /\ IF RemoveDuplicatesRaises(all_jobs)
     THEN unique_jobs' = <<>> /\ outcome' = "raised"
     ELSE unique_jobs' = remove_duplicates(all_jobs) /\ outcome' = "returned"
  /\ pc' = "done"
  /\ UNCHANGED <<web, prev, credentials, session_manager, args, sample_jobs, all_jobs, fsm, netCalls,
                 adapter_log>>

----------------------------------------------------------------------------
(* Specifications *)

\* a JobScraper after __init__
Init ==
  /\ pc = "idle"
  /\ args = NoArgs
  /\ sample_jobs = BundledSampleJobs
  /\ all_jobs = <<>>
  /\ unique_jobs = <<>>
  /\ outcome = "none"
  /\ fsm = "LIVE"
  /\ netCalls = 0
  /\ adapter_log = EmptyLog
  /\ rapidapi_key = ""
  /\ adzuna_app_id = ""
  /\ adzuna_app_key = ""
  /\ web = NoWeb
  /\ prev = "none"
  /\ active_sessions = {}
  /\ blacklisted_tokens = {}
  /\ now = 0
  /\ ended_tokens = {}

Next ==
  \/ CallScrapeJobs
  \/ ReturnSampleOnly
  \/ TryLinkedIn
  \/ TryIndeed
  \/ TryNaukri
  \/ UseSampleIfEmpty
  \/ ReturnUnique
  \/ Return

Spec == Init /\ [][Next]_vars

\* a JobAPIClient after __init__: each credential is what os.getenv gave,
\* the empty string when the variable is not set
Keys == {"", "secret"}

InitApi ==
  /\ pc = "idle"
  /\ args = NoArgs
  /\ sample_jobs = BundledSampleJobs
  /\ all_jobs = <<>>
  /\ unique_jobs = <<>>
  /\ outcome = "none"
  /\ fsm = "LIVE"
  /\ netCalls = 0
  /\ adapter_log = EmptyLog
  /\ rapidapi_key \in Keys
  /\ adzuna_app_id \in Keys
  /\ adzuna_app_key \in Keys
  /\ web = NoWeb
  /\ prev = "none"
  /\ active_sessions = {}
  /\ blacklisted_tokens = {}
  /\ now = 0
  /\ ended_tokens = {}

NextApi ==
  \/ CallFetchAllSources
  \/ TryRapidAPI
  \/ TryAdzuna
  \/ TryRemoteOK
  \/ ReturnApiUnique
  \/ CallRemoveDuplicates
  \/ Return

SpecApi == InitApi /\ [][NextApi]_vars

----------------------------------------------------------------------------
(* A session of scrape_jobs calls against portals whose pages are fixed    *)
(* for the length of one call.  The caller remembers which data the        *)
(* previous call served.                                                   *)

DE == <<"D","E">>
DA == <<"D","A">>
WD == <<"W","D">>
BA == <<"B","A">>

\* a snippet longer than any description cap
LongSnippet == Text("snippet of 501 characters", 501)

PageDataJobs ==
  << FullCard(Elem(QueryDataScientist), Elem(TechCorp), Elem("Bangalore"),
              NoElem, FALSE),
     FullCard(Elem(DE), Elem(TechCorp), NoElem, NoElem, FALSE),
     FullCard(Elem(DA), Elem(Acme), NoElem, Elem(LongSnippet), FALSE) >>

PageOtherJobs ==
  << FullCard(Elem(ML), Elem(Acme), NoElem, NoElem, FALSE),
     FullCard(Elem(WD), Elem(TechCorp), NoElem, NoElem, FALSE),
     FullCard(Elem(BA), Elem(Acme), NoElem, NoElem, FALSE) >>

PageSameTitle ==
  << FullCard(Elem(QueryDataScientist), Elem(Acme), NoElem, NoElem, FALSE),
     FullCard(Elem(QueryDataScientist), Elem(TechCorp), Elem("Mumbai"),
              NoElem, FALSE) >>

PageBrokenCard ==
  << FullCard(Elem(QueryDataScientist), Elem(TechCorp), Elem("Delhi"),
              NoElem, FALSE),
     FullCard(Elem(BA), Elem(Acme), NoElem, NoElem, TRUE),
     FullCard(Elem(ML), Elem(TechCorp), NoElem, NoElem, FALSE),
     FullCard(Elem(WD), Elem(TechCorp), NoElem, NoElem, FALSE) >>

SessionPages ==
  { [kind |-> "ok", cards |-> PageDataJobs],
    [kind |-> "ok", cards |-> PageOtherJobs],
    [kind |-> "ok", cards |-> PageSameTitle],
    [kind |-> "ok", cards |-> PageBrokenCard],
    [kind |-> "ok", cards |-> <<>>],
    [kind |-> "http_error", cards |-> PageOtherJobs],
    [kind |-> "network_error", cards |-> <<>>] }

SessionMaxJobs == {2, 5, 6, 9}

SessionCall ==
  /\ \E max_jobs \in SessionMaxJobs, use_sample \in BOOLEAN :
       EnterScrapeJobs(QueryDataScientist, Location, max_jobs, use_sample)
  /\ web' \in [Range(LiveSources) -> SessionPages]

SessionLinkedIn ==
  LiveStep("linkedin", "indeed", "LinkedIn",
           scrape_linkedin_jobs(web["LinkedIn"], args.location,
                                Quota(args.max_jobs)),
           web["LinkedIn"])

SessionIndeed ==
  LiveStep("indeed", "naukri", "Indeed",
           scrape_indeed_jobs(web["Indeed"], args.location,
                              Quota(args.max_jobs)),
           web["Indeed"])

SessionNaukri ==
  LiveStep("naukri", "fallback", "Naukri",
           scrape_naukri_jobs(web["Naukri"], args.location,
                              Quota(args.max_jobs)),
           web["Naukri"])

SessionReturn == ReturnRecording(fsm)

NextSession ==
  \/ SessionCall
  \/ ReturnSampleOnly
  \/ SessionLinkedIn
  \/ SessionIndeed
  \/ SessionNaukri
  \/ UseSampleIfEmpty
  \/ ReturnUnique
  \/ SessionReturn

SpecSession == Init /\ [][NextSession]_vars

----------------------------------------------------------------------------
(* fetch_all_sources against payloads that are fixed for the length of one *)
(* call and whose records may hold JSON nulls.                             *)

LongDescription == Text("description of 600 characters", 600)
ShortDescription == Text("Remote role", 11)

RapidPayloads ==
  { [kind |-> "ok",
     records |-> << RapidRecord(Elem(DS), Elem(TechCorp), Elem(LongDescription)),
                    RapidRecord(NullElem, Elem(TechCorp), NoElem) >>],
    [kind |-> "ok",
     records |-> << RapidRecord(Elem(DS), Elem(TechCorp), NoElem),
                    RapidRecord(Elem(ds), Elem(techcorp), NullElem) >>],
    [kind |-> "ok",
     records |-> << RapidRecord(Elem(DS), Elem(TechCorp),
                                Elem(ShortDescription)) >>],
    [kind |-> "network_error", records |-> <<>>] }

AdzunaPayloads ==
  { [kind |-> "ok",
     records |-> << AdzunaRecord(Elem(DS), Elem(CompanyObject(Elem(TechCorp))),
                                 NoElem),
                    AdzunaRecord(Elem(ML), NullElem, NoElem) >>],
    [kind |-> "ok",
     records |-> << AdzunaRecord(Elem(ML), Elem(CompanyObject(NullElem)),
                                 NoElem) >>],
    [kind |-> "ok",
     records |-> << AdzunaRecord(Elem(ML), Elem(CompanyObject(Elem(Acme))),
                                 Elem(LongDescription)) >>],
    [kind |-> "ok", records |-> <<>>] }

RemoteOKPayloads ==
  { [kind |-> "ok",
     records |-> << RemoteOKRecord(Elem(DS), Elem(techcorp), NoElem),
                    RemoteOKRecord(NullElem, Elem(Acme), NoElem) >>],
    [kind |-> "ok",
     records |-> << RemoteOKRecord(Elem(DS), NullElem, NoElem) >>],
    [kind |-> "ok",
     records |-> << RemoteOKRecord(Elem(ds), Elem(Acme),
                                   Elem(ShortDescription)) >>],
    [kind |-> "http_error", records |-> <<>>] }

PayloadCall ==
  /\ \E job_title \in ApiJobTitles, max_results \in 0..MaxPerSource :
       EnterFetchAllSources(job_title, Location, max_results)
  /\ \E r \in RapidPayloads, a \in AdzunaPayloads, o \in RemoteOKPayloads :
       web' = [s \in Range(ApiSources) |->
                 IF s = "RapidAPI JSearch" THEN r
                 ELSE IF s = "Adzuna" THEN a ELSE o]

PayloadRapidAPI ==
  ApiStep("rapidapi", "adzuna", "RapidAPI JSearch",
          fetch_from_rapidapi_jsearch(rapidapi_key, web["RapidAPI JSearch"],
                                      args.location,
                                      args.max_results_per_source),
          web["RapidAPI JSearch"])

PayloadAdzuna ==
  ApiStep("adzuna", "remoteok", "Adzuna",
          fetch_from_adzuna(adzuna_app_id, adzuna_app_key, web["Adzuna"],
                            args.location, args.max_results_per_source),
          web["Adzuna"])

PayloadRemoteOK ==
  ApiStep("remoteok", "api_unique", "RemoteOK",
          fetch_from_remoteok(web["RemoteOK"], args.job_title,
                              args.max_results_per_source),
          web["RemoteOK"])

NextPayload ==
  \/ PayloadCall
  \/ PayloadRapidAPI
  \/ PayloadAdzuna
  \/ PayloadRemoteOK
  \/ ReturnApiUnique
  \/ Return

SpecPayload == InitApi /\ [][NextPayload]_vars

----------------------------------------------------------------------------
(* The record-to-posting mappings applied to one raw record twice. *)

SalaryFields ==
  {NoElem, NullElem, Elem(0), Elem(950), Elem(50000), Elem(1200000)}

RapidSalaryRecords ==
  { [job_title |-> t, employer_name |-> Elem(TechCorp),
     job_description |-> NoElem, job_min_salary |-> lo,
     job_max_salary |-> hi] :
      t \in {Elem(DS), NoElem, NullElem}, lo \in SalaryFields,
      hi \in SalaryFields }

AdzunaSalaryRecords ==
  { [title |-> Elem(DS), company |-> c, description |-> d,
     salary_min |-> lo, salary_max |-> hi] :
      c \in {NoElem, Elem(CompanyObject(Elem(Acme)))},
      d \in {NoElem, Elem(LongDescription)},
      lo \in SalaryFields, hi \in SalaryFields }

RemoteOKSalaryRecords ==
  { [position |-> Elem(ds), company |-> Elem(Acme), description |-> NoElem,
     salary_min |-> lo, salary_max |-> hi] :
      lo \in SalaryFields, hi \in SalaryFields }

\* the raw records each source can hand to its mapping
RawRecords(source) ==
  IF source = "RapidAPI JSearch" THEN RapidSalaryRecords
  ELSE IF source = "Adzuna" THEN AdzunaSalaryRecords
  ELSE IF source = "RemoteOK" THEN RemoteOKSalaryRecords
  ELSE {card \in Cards : ~card.broken}

\* the dict literal the adapter of the source builds from one raw record
Normalize(source, record, location) ==
  IF source = "RapidAPI JSearch" THEN RapidToJob(record, location)
  ELSE IF source = "Adzuna" THEN AdzunaToJob(record, location)
  ELSE IF source = "RemoteOK" THEN RemoteOKToJob(record)
  ELSE CardToJob(record, location, source)

NormalizeCall ==
  /\ pc = "idle"
  /\ \E source \in Range(ApiSources) \cup Range(LiveSources) :
       \E record \in RawRecords(source) :
         args' = [op |-> "normalize", source |-> source, record |-> record,
                  location |-> Location]
  /\ pc' = "normalize"
  /\ all_jobs' = <<>>
  /\ UNCHANGED <<sample_jobs, unique_jobs, outcome, fsm, netCalls,
                 adapter_log, credentials, session_manager, web, prev>>

\* the mapping is applied to the record, a first and a second time
NormalizeRecord ==
  /\ pc = "normalize"
  /\ all_jobs' = Append(all_jobs,
                        Normalize(args.source, args.record, args.location))
  /\ pc' = IF Len(all_jobs) = 0 THEN "normalize" ELSE "done"
  /\ UNCHANGED <<args, sample_jobs, unique_jobs, outcome, fsm, netCalls,
                 adapter_log, credentials, session_manager, web, prev>>

NextNormalize ==
  \/ NormalizeCall
  \/ NormalizeRecord
  \/ Return

SpecNormalize == Init /\ [][NextNormalize]_vars

----------------------------------------------------------------------------
(* SessionManager.  active_sessions is the set of the entries of the dict, *)
(* each with its key; time is counted in hours.                            *)

Users == {1, 2}
AccessTokens == {"a1", "a2"}
RefreshTokens == {"r1", "r2"}

\* the default of cleanup_expired_sessions(hours)
DefaultHours == 24

\* the hours between two readings of the clock
TickHours == 24

CleanupHours == {1, DefaultHours}

SessionsOf(sessions, user_id) == {s \in sessions : s.user_id = user_id}

TokensOf(sessions) ==
  UNION {{s.access_token, s.refresh_token} : s \in sessions}

\* a create_session that adds an entry and leaves the user's old one
create_session_append(sessions, user_id, access_token, refresh_token, t) ==
  sessions
    \cup {[user_id |-> user_id, access_token |-> access_token,
           refresh_token |-> refresh_token, created_at |-> t,
           last_activity |-> t]}

\* self.active_sessions[user_id] = {...}: the entry of the key is replaced
create_session(sessions, user_id, access_token, refresh_token, t) ==
  (sessions \ SessionsOf(sessions, user_id))
    \cup {[user_id |-> user_id, access_token |-> access_token,
           refresh_token |-> refresh_token, created_at |-> t,
           last_activity |-> t]}

update_session_activity(sessions, user_id, t) ==
  { IF s.user_id = user_id THEN [s EXCEPT !.last_activity = t] ELSE s :
      s \in sessions }

\* line 348: (current_time - last_activity).total_seconds() > hours * 3600
Expired(sessions, t, hours) ==
  {s \in sessions : (t - s.last_activity) * 3600 > hours * 3600}

pipeline ==
  <<pc, sample_jobs, all_jobs, unique_jobs, outcome, fsm, netCalls,
    adapter_log, credentials, web, prev>>

\* end_session for each of the users: the tokens of the user's entry go to
\* the blacklist and the entry is deleted; a user without entry is passed
EndSessions(users) ==
  LET removed == {s \in active_sessions : s.user_id \in users}
  IN  /\ blacklisted_tokens' = blacklisted_tokens \cup TokensOf(removed)
      /\ active_sessions' = active_sessions \ removed
      /\ ended_tokens' = ended_tokens \cup TokensOf(removed)

CreateSession ==
  /\ pc = "idle"
  /\ \E user_id \in Users, access_token \in AccessTokens,
        refresh_token \in RefreshTokens :
       /\ active_sessions' = create_session(active_sessions, user_id,
                                            access_token, refresh_token, now)
       /\ args' = [op |-> "create_session", user_id |-> user_id]
  /\ UNCHANGED <<blacklisted_tokens, now, ended_tokens, pipeline>>

UpdateSessionActivity ==
  /\ pc = "idle"
  /\ \E user_id \in Users :
       /\ active_sessions' = update_session_activity(active_sessions,
                                                     user_id, now)
       /\ args' = [op |-> "update_session_activity", user_id |-> user_id]
  /\ UNCHANGED <<blacklisted_tokens, now, ended_tokens, pipeline>>

EndSession ==
  /\ pc = "idle"
  /\ \E user_id \in Users :
       /\ EndSessions({user_id})
       /\ args' = [op |-> "end_session", user_id |-> user_id]
  /\ UNCHANGED <<now, pipeline>>

CleanupExpiredSessions ==
  /\ pc = "idle"
  /\ \E hours \in CleanupHours :
       EndSessions({s.user_id : s \in Expired(active_sessions, now, hours)})
  /\ args' = [op |-> "cleanup_expired_sessions"]
  /\ UNCHANGED <<now, pipeline>>

\* time passes between two operations
Tick ==
  /\ pc = "idle"
  /\ now < MaxTicks * TickHours
  /\ now' = now + TickHours
  /\ UNCHANGED <<args, active_sessions, blacklisted_tokens, ended_tokens,
                 pipeline>>

NextAuth ==
  \/ CreateSession
  \/ UpdateSessionActivity
  \/ EndSession
  \/ CleanupExpiredSessions
  \/ Tick

SpecAuth == Init /\ [][NextAuth]_vars

----------------------------------------------------------------------------
(* Properties *)

ScrapeDone == pc = "done" /\ args.op = "scrape_jobs"
LiveDone == ScrapeDone /\ ~args.use_sample
FetchDone == pc = "done" /\ args.op = "fetch_all_sources"
DedupDone == pc = "done" /\ args.op = "_remove_duplicates"

AllFrom(jobs, source) == \A i \in 1..Len(jobs) : jobs[i].source = source
NoneFrom(jobs, source) == \A i \in 1..Len(jobs) : jobs[i].source # source

Asked(source) == source \in DOMAIN adapter_log

\* what the adapter of a source gave to the running call
Gave(source) == IF Asked(source) THEN adapter_log[source].jobs ELSE <<>>

LiveGave == Gave("LinkedIn") \o Gave("Indeed") \o Gave("Naukri")

NoSharedKey(jobs) ==
  \A i, j \in 1..Len(jobs) : i # j => DedupKey(jobs[i]) # DedupKey(jobs[j])

HasKeyOf(jobs, job) ==
  \E i \in 1..Len(jobs) : DedupKey(jobs[i]) = DedupKey(job)

\* C1: a list returned by scrape_jobs has at most max_jobs postings,
\* whatever use_sample is and whatever the three live sources answer.
C1_LengthWithinMaxJobs ==
  ScrapeDone => Len(unique_jobs) <= args.max_jobs

C1_Witness ==
  /\ LiveDone
  /\ fsm = "LIVE"
  /\ args.max_jobs = 3
  /\ Len(unique_jobs) = 3

\* C2: in a list returned by scrape_jobs no two postings share the key
\* (lowercase(title), lowercase(company)), and every key of the combined
\* list is still there: same title with another company is kept.
C2_NoTwoShareDedupKey ==
  ScrapeDone =>
    /\ NoSharedKey(unique_jobs)
    /\ \A k \in 1..Len(all_jobs) : HasKeyOf(unique_jobs, all_jobs[k])

\* the indices of the postings that are the first with their key
FirstIndices(jobs) ==
  {i \in 1..Len(jobs) :
     \A j \in 1..(i - 1) : DedupKey(jobs[j]) # DedupKey(jobs[i])}

\* the subsequence of jobs at the indices I, in the order of jobs
SubsequenceAt(jobs, I) ==
  [k \in 1..Cardinality(I) |->
     jobs[CHOOSE i \in I : Cardinality({j \in I : j <= i}) = k]]

\* C3: _remove_duplicates returns the subsequence of its input made of
\* the postings that are the first with their key
\* (lowercase(title), lowercase(company)); so no key occurs twice in the
\* output and every key of the input occurs in it.
C3_FirstOccurrenceWins ==
  DedupDone =>
    /\ unique_jobs = SubsequenceAt(args.jobs, FirstIndices(args.jobs))
    /\ NoSharedKey(unique_jobs)
    /\ \A k \in 1..Len(args.jobs) : HasKeyOf(unique_jobs, args.jobs[k])

C3_Witness ==
  /\ DedupDone
  /\ Len(args.jobs) = 3
  /\ Len(unique_jobs) = 2
  /\ DedupKey(args.jobs[1]) = DedupKey(args.jobs[3])
  /\ args.jobs[1].title # args.jobs[3].title
  /\ args.jobs[1].company # args.jobs[3].company

\* C4: with use_sample = True every posting scrape_jobs returns carries the
\* source tag "Sample Data".
C4_SampleOnlyIsAllSample ==
  (ScrapeDone /\ args.use_sample) => AllFrom(unique_jobs, SAMPLE_SOURCE)

C4_Witness ==
  /\ ScrapeDone
  /\ args.use_sample
  /\ args.job_title = QueryDataScientist
  /\ args.max_jobs = 5
  /\ Len(unique_jobs) = 3

\* the adapter of a source failed or gave no posting
FailedOrEmpty(source) ==
  Asked(source) /\ (adapter_log[source].failed \/ adapter_log[source].jobs = <<>>)

AllLiveFailedOrEmpty ==
  \A i \in 1..Len(LiveSources) : FailedOrEmpty(LiveSources[i])

\* C5: when every live adapter of a scrape_jobs call with use_sample =
\* False fails or gives no posting, the returned list is empty or made of
\* "Sample Data" postings only.
C5_ExhaustionGivesSampleOnly ==
  (LiveDone /\ AllLiveFailedOrEmpty) =>
    (unique_jobs = <<>> \/ AllFrom(unique_jobs, SAMPLE_SOURCE))

C5_Witness ==
  /\ LiveDone
  /\ \A i \in 1..Len(LiveSources) :
       Asked(LiveSources[i]) /\ adapter_log[LiveSources[i]].failed
  /\ args.max_jobs >= 3
  /\ Len(unique_jobs) >= 1
  /\ AllFrom(unique_jobs, SAMPLE_SOURCE)

\* C6: a list returned by scrape_jobs is all "Sample Data" or has no
\* "Sample Data" posting at all, and it has none whenever a live adapter
\* gave a posting.
C6_FallbackAllOrNothing ==
  ScrapeDone =>
    /\ AllFrom(unique_jobs, SAMPLE_SOURCE) \/ NoneFrom(unique_jobs, SAMPLE_SOURCE)
    /\ LiveGave # <<>> => NoneFrom(unique_jobs, SAMPLE_SOURCE)

C6_Witness ==
  /\ LiveDone
  /\ LiveGave # <<>>
  /\ Len(unique_jobs) >= 2
  /\ Len(unique_jobs) < args.max_jobs
  /\ NoneFrom(unique_jobs, SAMPLE_SOURCE)

RECURSIVE SumQuota(_)
SumQuota(sources) ==
  IF sources = <<>> THEN 0
  ELSE (IF Asked(Head(sources)) THEN adapter_log[Head(sources)].quota ELSE 0)
       + SumQuota(Tail(sources))

\* C7: every quota scrape_jobs hands to a live adapter is >= 0 and the
\* quotas handed out in one call sum to at most max_jobs.
C7_QuotaWithinBudget ==
  args.op = "scrape_jobs" =>
    /\ \A s \in DOMAIN adapter_log : adapter_log[s].quota >= 0
    /\ SumQuota(LiveSources) <= args.max_jobs

C7_Witness ==
  /\ LiveDone
  /\ args.max_jobs = 5
  /\ \A i \in 1..Len(LiveSources) : Asked(LiveSources[i])
  /\ SumQuota(LiveSources) = 3

\* C8: a failure of any of the live adapters is not propagated by
\* scrape_jobs: the call returns a list, every adapter was still invoked
\* and issued its request, a failing adapter gave the empty list, and the
\* postings the other adapters gave make up the combined list and keep
\* their titles in the returned list.
C8_FailureIsContained ==
  LiveDone =>
    /\ outcome = "returned"
    /\ \A i \in 1..Len(LiveSources) :
         /\ Asked(LiveSources[i])
         /\ adapter_log[LiveSources[i]].requests = 1
         /\ adapter_log[LiveSources[i]].failed => Gave(LiveSources[i]) = <<>>
    /\ LiveGave # <<>> => all_jobs = LiveGave
    /\ \A k \in 1..Len(LiveGave) :
         \E i \in 1..Len(unique_jobs) :
           /\ unique_jobs[i].title = LiveGave[k].title
           /\ unique_jobs[i].source # SAMPLE_SOURCE

C8_Witness ==
  /\ LiveDone
  /\ Asked("LinkedIn") /\ Gave("LinkedIn") # <<>>
  /\ Asked("Indeed") /\ adapter_log["Indeed"].failed
  /\ Asked("Naukri") /\ Gave("Naukri") # <<>>
  /\ \E i \in 1..Len(unique_jobs) : unique_jobs[i].source = "LinkedIn"
  /\ \E i \in 1..Len(unique_jobs) : unique_jobs[i].source = "Naukri"

\* C9: scrape_jobs("", location, max_jobs, False) ends in a validation
\* error and issues no network request.
C9_EmptyTitleIsRejected ==
  (LiveDone /\ args.job_title = QueryEmpty) =>
    (outcome = "validation_error" /\ netCalls = 0)

RapidEnabled == rapidapi_key # ""
AdzunaEnabled == adzuna_app_id # "" /\ adzuna_app_key # ""

HasCredentials(source) ==
  CASE source = "RapidAPI JSearch" -> RapidEnabled
    [] source = "Adzuna" -> AdzunaEnabled
    [] OTHER -> TRUE

\* C10: an API adapter whose credential is missing gives the empty list
\* and issues no request; in fetch_all_sources every other adapter,
\* RemoteOK among them, is still invoked and issues its request, and every
\* posting it gave is returned (once per key).
C10_MissingCredentialDisablesOneAdapter ==
  /\ args.op = "fetch_all_sources" =>
       \A s \in DOMAIN adapter_log :
         IF HasCredentials(s)
         THEN adapter_log[s].requests = 1
         ELSE adapter_log[s].requests = 0 /\ adapter_log[s].jobs = <<>>
  /\ FetchDone =>
       /\ outcome = "returned"
       /\ \A i \in 1..Len(ApiSources) : Asked(ApiSources[i])
       /\ netCalls = Cardinality({i \in 1..Len(ApiSources) : HasCredentials(ApiSources[i])})
       /\ \A i \in 1..Len(ApiSources) :
            \A k \in 1..Len(Gave(ApiSources[i])) :
              HasKeyOf(unique_jobs, Gave(ApiSources[i])[k])

C10_Witness ==
  /\ FetchDone
  /\ rapidapi_key = ""
  /\ adzuna_app_id # ""
  /\ adzuna_app_key = ""
  /\ Gave("RemoteOK") # <<>>
  /\ unique_jobs # <<>>
  /\ AllFrom(unique_jobs, "RemoteOK")

\* C11: no adapter gives more postings than the maximum it was called
\* with, whatever the source answers.
C11_AdapterWithinMaxResults ==
  \A s \in DOMAIN adapter_log :
    Len(adapter_log[s].jobs) <= adapter_log[s].quota

KeywordData == <<"d","a","t","a">>
KeywordScientist == <<"s","c","i","e","n","t","i","s","t">>

\* the bundled postings whose lowercase title contains "data" or
\* "scientist", in bundled order
DataOrScientistSamples ==
  SelectSeq(BundledSampleJobs,
            LAMBDA job : \/ IsSubstr(KeywordData, Lower(job.title))
                         \/ IsSubstr(KeywordScientist, Lower(job.title)))

\* C14: scrape_jobs("Data Scientist", "India", 5, False) with every live
\* adapter giving nothing returns the bundled postings whose lowercase
\* title contains "data" or "scientist", in bundled order, at most 5.
C14_ExhaustedDataScientistGivesSamples ==
  (/\ LiveDone
   /\ args.job_title = QueryDataScientist
   /\ args.max_jobs = 5
   /\ LiveGave = <<>>) =>
    /\ unique_jobs = Take(DataOrScientistSamples, 5)
    /\ Len(unique_jobs) <= 5

C14_Witness ==
  /\ LiveDone
  /\ args.job_title = QueryDataScientist
  /\ args.max_jobs = 5
  /\ LiveGave = <<>>
  /\ \A i \in 1..Len(LiveSources) : Asked(LiveSources[i])
  /\ Len(unique_jobs) = 3
  /\ unique_jobs[1] = BundledSampleJobs[1]
  /\ unique_jobs[2] = BundledSampleJobs[6]
  /\ unique_jobs[3] = BundledSampleJobs[9]

SessionLiveDone == LiveDone /\ DOMAIN web # {}

\* the records a source has available for the running call
Available(source) ==
  IF web[source].kind = "ok"
  THEN ParseCards(web[source].cards, args.location, source)
  ELSE <<>>

PairOf(job) == <<job.title, job.company>>

NoSharedPair(jobs) ==
  \A i, j \in 1..Len(jobs) : i # j => PairOf(jobs[i]) # PairOf(jobs[j])

\* sources i < j (in priority order) are the two that yield postings, three
\* records each, no pair (title, company) twice among the six
TwoSourcesOfThree(i, j) ==
  /\ i < j
  /\ Len(Available(LiveSources[i])) = 3
  /\ Len(Available(LiveSources[j])) = 3
  /\ \A k \in 1..Len(LiveSources) :
       (k # i /\ k # j) => Available(LiveSources[k]) = <<>>
  /\ NoSharedPair(Available(LiveSources[i]) \o Available(LiveSources[j]))

\* C12: scrape_jobs("Data Scientist", "India", 6, False) where exactly two
\* live adapters yield postings, each with 3 records available and no
\* (title, company) pair twice, returns exactly 6 postings, those of the
\* adapter of higher priority first.
C12_TwoSourcesFillTheBudget ==
  \A i, j \in 1..Len(LiveSources) :
    (/\ SessionLiveDone
     /\ args.job_title = QueryDataScientist
     /\ args.max_jobs = 6
     /\ TwoSourcesOfThree(i, j)) =>
      /\ Len(unique_jobs) = 6
      /\ unique_jobs = Available(LiveSources[i]) \o Available(LiveSources[j])

IsDataScientistAtTechCorp(job) ==
  job.title = QueryDataScientist /\ job.company = TechCorp

GaveDataScientistAtTechCorp(source) ==
  \E k \in 1..Len(Gave(source)) : IsDataScientistAtTechCorp(Gave(source)[k])

\* the first source, in priority order, that gave such a posting
FirstGiver ==
  LiveSources[CHOOSE k \in 1..Len(LiveSources) :
                /\ GaveDataScientistAtTechCorp(LiveSources[k])
                /\ \A m \in 1..(k - 1) :
                     ~GaveDataScientistAtTechCorp(LiveSources[m])]

\* C13: when two adapters each give a posting "Data Scientist" at
\* "TechCorp" with different locations, the returned list holds exactly one
\* posting with that title and company, the one of the adapter that is
\* first in the priority order LinkedIn, Indeed, Naukri.
C13_SharedPostingKeptOnceFromFirstSource ==
  (/\ LiveDone
   /\ \E i, j \in 1..Len(LiveSources) :
        /\ i < j
        /\ \E a \in 1..Len(Gave(LiveSources[i])),
              b \in 1..Len(Gave(LiveSources[j])) :
             /\ IsDataScientistAtTechCorp(Gave(LiveSources[i])[a])
             /\ IsDataScientistAtTechCorp(Gave(LiveSources[j])[b])
             /\ Gave(LiveSources[i])[a].location
                  # Gave(LiveSources[j])[b].location) =>
    LET hits == {k \in 1..Len(unique_jobs) :
                   IsDataScientistAtTechCorp(unique_jobs[k])}
    IN  /\ Cardinality(hits) = 1
        /\ \A k \in hits : unique_jobs[k].source = FirstGiver

DescriptionsWithinLimit(jobs) ==
  \A i \in 1..Len(jobs) : jobs[i].description.len <= DescriptionLimit

\* C16: the description of every posting an adapter gives or a call
\* returns has at most 500 characters.
C16_DescriptionAtMost500 ==
  /\ \A s \in DOMAIN adapter_log : DescriptionsWithinLimit(adapter_log[s].jobs)
  /\ DescriptionsWithinLimit(unique_jobs)

\* the cards among the first n of the page that parse without error
ParsingIndices(cards, n) ==
  {i \in 1..Len(cards) : i <= n /\ ~cards[i].broken}

\* C20: a card whose parsing raises is skipped alone: a scrape adapter
\* gives exactly the postings of the cards among the first max_jobs of the
\* page that parse without error, in page order.
C20_BrokenCardSkippedAlone ==
  \A s \in DOMAIN adapter_log :
    (DOMAIN web # {} /\ web[s].kind = "ok") =>
      LET good == SubsequenceAt(web[s].cards,
                                ParsingIndices(web[s].cards,
                                               adapter_log[s].quota))
      IN  adapter_log[s].jobs =
            [k \in 1..Len(good) |-> CardToJob(good[k], args.location, s)]

C20_Witness ==
  /\ Asked("LinkedIn")
  /\ DOMAIN web # {}
  /\ web["LinkedIn"] = [kind |-> "ok", cards |-> PageBrokenCard]
  /\ adapter_log["LinkedIn"].quota = 3
  /\ Len(Gave("LinkedIn")) = 2
  /\ Gave("LinkedIn")[1].title = QueryDataScientist
  /\ Gave("LinkedIn")[2].title = ML

\* what the arguments of the running call and the pages served to it give
ResultOfCallAlone ==
  LET q == Quota(args.max_jobs)
      live == scrape_linkedin_jobs(web["LinkedIn"], args.location, q).jobs
              \o scrape_indeed_jobs(web["Indeed"], args.location, q).jobs
              \o scrape_naukri_jobs(web["Naukri"], args.location, q).jobs
  IN  UniqueByTitle(Fallback(live, BundledSampleJobs, args.job_title,
                             args.max_jobs),
                    args.max_jobs)

\* C17: whatever the earlier calls were and however they ended, a call
\* with use_sample = False starts in LIVE with nothing carried over, asks
\* each live adapter once, and returns a list fixed by its own arguments
\* and the responses it received.
C17_NoMemoryAcrossCalls ==
  /\ pc = "linkedin" =>
       /\ fsm = "LIVE"
       /\ netCalls = 0
       /\ all_jobs = <<>>
       /\ adapter_log = EmptyLog
  /\ (args.op = "scrape_jobs" /\ ~args.use_sample) => pc # "sample_only"
  /\ SessionLiveDone =>
       /\ \A i \in 1..Len(LiveSources) :
            Asked(LiveSources[i]) /\ adapter_log[LiveSources[i]].requests = 1
       /\ netCalls = 3
       /\ unique_jobs = ResultOfCallAlone

C17_Witness ==
  /\ SessionLiveDone
  /\ prev = "SAMPLE"
  /\ fsm = "LIVE"
  /\ netCalls = 3
  /\ Len(unique_jobs) >= 2
  /\ NoneFrom(unique_jobs, SAMPLE_SOURCE)

NoNullField(jobs) ==
  \A i \in 1..Len(jobs) : jobs[i].title # Null /\ jobs[i].company # Null

\* C15: no posting an adapter gives or a call returns has a null title or
\* company: a key that is absent from the record, or present with null, is
\* represented by "N/A".
C15_NoFieldIsNull ==
  /\ \A s \in DOMAIN adapter_log : NoNullField(adapter_log[s].jobs)
  /\ NoNullField(unique_jobs)

\* C18: fetch_all_sources returns a list and never raises, whatever the
\* payloads of the three APIs hold.
C18_FetchAllSourcesNeverRaises == FetchDone => outcome = "returned"

\* the adapter of the source sent its request and got a 2xx payload
GotPayload(source) ==
  /\ Asked(source)
  /\ adapter_log[source].requests = 1
  /\ web[source].kind = "ok"

Min(a, b) == IF a <= b THEN a ELSE b

\* C19: every record an adapter processes becomes a posting: RapidAPI
\* gives one posting for each of the first max_results records, Adzuna one
\* for each record, and RemoteOK, when max_results is positive, at least
\* the posting of a first record whose position matches the query.
C19_NormalizationIsTotal ==
  /\ GotPayload("RapidAPI JSearch") =>
       Len(adapter_log["RapidAPI JSearch"].jobs)
         = Min(Len(web["RapidAPI JSearch"].records),
               args.max_results_per_source)
  /\ GotPayload("Adzuna") =>
       Len(adapter_log["Adzuna"].jobs) = Len(web["Adzuna"].records)
  /\ ( /\ GotPayload("RemoteOK")
       /\ args.max_results_per_source >= 1
       /\ web["RemoteOK"].records # <<>>
       /\ ~IsNull(web["RemoteOK"].records[1].position)
       /\ PositionMatches(web["RemoteOK"].records[1], args.job_title) )
     => adapter_log["RemoteOK"].jobs # <<>>

\* a scrape_jobs call with use_sample = True is running or has returned
SampleCall == args.op = "scrape_jobs" /\ args.use_sample

\* C21: a scrape_jobs call with use_sample = True is in SAMPLE from its
\* first step to its return; it invokes no live adapter and issues no
\* network request.
C21_SampleOnlyCallStaysOffline ==
  SampleCall =>
    /\ fsm = "SAMPLE"
    /\ pc \in {"sample_only", "done"}
    /\ adapter_log = EmptyLog
    /\ netCalls = 0
    /\ all_jobs = <<>>

C21_Witness ==
  /\ SampleCall
  /\ pc = "done"
  /\ args.job_title = QueryNoMatch
  /\ Len(unique_jobs) = 4
  /\ netCalls = 0

\* a scrape_jobs call with use_sample = False is running or has returned
LiveCall == args.op = "scrape_jobs" /\ ~args.use_sample

AllThreeAsked == \A i \in 1..Len(LiveSources) : Asked(LiveSources[i])

HasSample(jobs) == \E i \in 1..Len(jobs) : jobs[i].source = SAMPLE_SOURCE

AfterFallback == pc \in {"unique", "done"}

\* the state part of C22
FallbackOnlyWhenLiveIsEmpty ==
  LiveCall =>
    /\ fsm = "SAMPLE" => (AfterFallback /\ AllThreeAsked /\ LiveGave = <<>>)
    /\ AfterFallback => (fsm = "SAMPLE" <=> LiveGave = <<>>)
    /\ HasSample(all_jobs) => fsm = "SAMPLE"
    /\ \A s \in DOMAIN adapter_log : adapter_log[s].requests <= 1
    /\ netCalls <= Len(LiveSources)

\* the step part of C22: LIVE is left only by the fallback step, and once
\* the call is in SAMPLE it stays there and queries no adapter
NoRetryAfterFallback ==
  LiveCall =>
    /\ (fsm = "LIVE" /\ fsm' = "SAMPLE") => (pc = "fallback" /\ pc' = "unique")
    /\ (fsm = "SAMPLE" /\ pc' # "idle") =>
         /\ fsm' = "SAMPLE"
         /\ adapter_log' = adapter_log
         /\ netCalls' = netCalls

\* C22: a LIVE call of scrape_jobs goes to SAMPLE at most once, only after
\* all three live adapters were queried and exactly when they gave no
\* posting; after that no live adapter is queried again in the call.
C22_OneFallbackNoRetry ==
  []FallbackOnlyWhenLiveIsEmpty /\ [][NoRetryAfterFallback]_vars

C22_Witness ==
  /\ LiveDone
  /\ fsm = "SAMPLE"
  /\ AllThreeAsked
  /\ netCalls = 3
  /\ args.max_jobs = 4
  /\ Len(unique_jobs) = 4
  /\ HasSample(unique_jobs)

\* the place of a source in the priority order LinkedIn, Indeed, Naukri
SourceRank(source) ==
  CHOOSE i \in 1..Len(LiveSources) : LiveSources[i] = source

\* the first place of the combined live list that holds the title
FirstSeenAt(title) ==
  CHOOSE i \in 1..Len(LiveGave) :
    /\ LiveGave[i].title = title
    /\ \A j \in 1..(i - 1) : LiveGave[j].title # title

\* C23: the live adapters are invoked in the order LinkedIn, Indeed,
\* Naukri; the result of a LIVE call holds the first-seen posting of each
\* of its titles, in the order of the combined list, so LinkedIn postings
\* precede Indeed postings, which precede Naukri postings, and the postings
\* of one source keep the order the adapter gave them.
C23_FirstSeenOrderBySourcePriority ==
  /\ LiveCall =>
       /\ Asked("Indeed") => Asked("LinkedIn")
       /\ Asked("Naukri") => Asked("Indeed")
  /\ (LiveDone /\ fsm = "LIVE") =>
       /\ \A k \in 1..Len(unique_jobs) :
            unique_jobs[k] = LiveGave[FirstSeenAt(unique_jobs[k].title)]
       /\ \A k, l \in 1..Len(unique_jobs) :
            k < l =>
              /\ FirstSeenAt(unique_jobs[k].title)
                   < FirstSeenAt(unique_jobs[l].title)
              /\ SourceRank(unique_jobs[k].source)
                   <= SourceRank(unique_jobs[l].source)

C23_Witness ==
  /\ LiveDone
  /\ fsm = "LIVE"
  /\ Len(unique_jobs) = 3
  /\ unique_jobs[1].source = "LinkedIn"
  /\ unique_jobs[2].source = "Indeed"
  /\ unique_jobs[3].source = "Naukri"
  /\ Len(LiveGave) > 3

EachLiveAdapterGaveItsQuota ==
  \A i \in 1..Len(LiveSources) :
    /\ Asked(LiveSources[i])
    /\ Len(Gave(LiveSources[i])) = Quota(args.max_jobs)

\* C24: each live adapter is handed max_jobs // 3, and when each of them
\* gives that many postings, no two of all of them with the same key
\* (lowercase(title), lowercase(company)), the call returns at least
\* max_jobs - 2 postings.
C24_UnderFetchAtMostTwo ==
  LiveCall =>
    /\ \A s \in DOMAIN adapter_log :
         adapter_log[s].quota = args.max_jobs \div 3
    /\ (pc = "done" /\ EachLiveAdapterGaveItsQuota /\ NoSharedKey(LiveGave))
         => Len(unique_jobs) >= args.max_jobs - 2

\* no bundled title contains a keyword of the query
NoBundledTitleMatches(job_title) ==
  \A i \in 1..Len(sample_jobs) : ~TitleMatches(sample_jobs[i], job_title)

\* C25: for every job_title, the empty one and one that matches no bundled
\* title included, and every max_jobs >= 1, get_sample_jobs returns between
\* 1 and max_jobs postings; when no bundled title contains a keyword of the
\* lowercase query it returns the first max_jobs bundled postings.
C25_SampleAdapterNeverEmpty ==
  (SampleCall /\ pc = "done" /\ args.max_jobs >= 1) =>
    /\ Len(unique_jobs) >= 1
    /\ Len(unique_jobs) <= args.max_jobs
    /\ NoBundledTitleMatches(args.job_title) =>
         unique_jobs = Take(sample_jobs, args.max_jobs)

C25_Witness ==
  /\ SampleCall
  /\ pc = "done"
  /\ args.job_title = QueryEmpty
  /\ args.max_jobs = 2
  /\ unique_jobs = <<BundledSampleJobs[1], BundledSampleJobs[2]>>

\* C26: a scrape_jobs call with use_sample = False and max_jobs 1 or 2
\* hands every live adapter the quota 0: the three requests are issued, no
\* adapter gives a posting whatever its page holds, and the call returns
\* at most max_jobs postings, all "Sample Data".
C26_SmallBudgetServesSamples ==
  (LiveCall /\ args.max_jobs \in {1, 2}) =>
    /\ \A s \in DOMAIN adapter_log :
         /\ adapter_log[s].quota = 0
         /\ adapter_log[s].requests = 1
         /\ adapter_log[s].jobs = <<>>
    /\ pc = "done" =>
         /\ AllThreeAsked
         /\ netCalls = 3
         /\ fsm = "SAMPLE"
         /\ Len(unique_jobs) >= 1
         /\ Len(unique_jobs) <= args.max_jobs
         /\ AllFrom(unique_jobs, SAMPLE_SOURCE)

C26_Witness ==
  /\ SessionLiveDone
  /\ args.max_jobs = 2
  /\ \A i \in 1..Len(LiveSources) : Len(Available(LiveSources[i])) >= 3
  /\ netCalls = 3
  /\ Len(unique_jobs) = 2
  /\ AllFrom(unique_jobs, SAMPLE_SOURCE)

\* the dict at each place of the result has the values of the posting there
ResultObjectsHoldResult ==
  ScrapeDone =>
    /\ Len(ResultObjects) = Len(unique_jobs)
    /\ \A k \in 1..Len(unique_jobs) :
         ResultObjects[k] # Fresh =>
           sample_jobs[ResultObjects[k]] = unique_jobs[k]

\* C27: no call of scrape_jobs changes the bundled dataset, and every
\* posting of a returned list is an object created by that call, none is
\* one of the dicts of self.sample_jobs.
C27_DatasetKeptAndResultFresh ==
  /\ sample_jobs = BundledSampleJobs
  /\ ScrapeDone => \A k \in 1..Len(ResultObjects) : ResultObjects[k] = Fresh

NormalizeDone == pc = "done" /\ args.op = "normalize"

C30_DedupIsIdempotent ==
  DedupDone =>
    /\ remove_duplicates(unique_jobs) = unique_jobs
    /\ \A m \in 0..(MaxDedupLen + 1) :
         UniqueByTitle(UniqueByTitle(args.jobs, m), m)
           = UniqueByTitle(args.jobs, m)

C30_Witness ==
  /\ DedupDone
  /\ Len(args.jobs) = 3
  /\ Len(unique_jobs) = 1
  /\ args.jobs[1].title # args.jobs[2].title
  /\ args.jobs[2] = args.jobs[3]
  /\ Len(UniqueByTitle(args.jobs, 3)) = 2

\* the state part of C29
OneSessionEachAndEndedBlacklisted ==
  /\ \A u \in Users : Cardinality(SessionsOf(active_sessions, u)) <= 1
  /\ ended_tokens \subseteq blacklisted_tokens

\* the step part of C29
BlacklistKeptAndIdleEndSessionInert ==
  /\ blacklisted_tokens \subseteq blacklisted_tokens'
  /\ ( /\ args'.op = "end_session"
       /\ SessionsOf(active_sessions, args'.user_id) = {} )
     => /\ active_sessions' = active_sessions
        /\ blacklisted_tokens' = blacklisted_tokens

\* C29: after any sequence of create_session, update_session_activity,
\* end_session and cleanup_expired_sessions each user has at most one
\* active session and the tokens of every session end_session or
\* cleanup_expired_sessions removed are in the blacklist; the blacklist
\* never loses a token, and end_session for a user without an active
\* session changes nothing.
C29_SessionManagerInvariants ==
  []OneSessionEachAndEndedBlacklisted
    /\ [][BlacklistKeptAndIdleEndSessionInert]_vars

C29_Witness ==
  /\ args.op = "cleanup_expired_sessions"
  /\ now = 2 * DefaultHours
  /\ Cardinality(active_sessions) = 1
  /\ \E s \in active_sessions : s.created_at = 0 /\ s.last_activity = now
  /\ ended_tokens = {"a1", "r1", "a2", "r2"}
  /\ blacklisted_tokens = ended_tokens

====
